---- MODULE Spec2Model ----
(***************************************************************************)
(* Model of the audio bridging engine of agent-voice-audio                 *)
(* (packages/agent-voice-audio/src/lib.rs): EngineInner behind its mutex,  *)
(* the AudioEngine control surface and the two device callbacks.           *)
(*                                                                         *)
(* Every handler holds the engine mutex for its whole critical section,    *)
(* so one action is one critical section (a whole callback, a whole        *)
(* control call); the states between actions are exactly the states in     *)
(* which the lock is free.                                                 *)
(*                                                                         *)
(* `inner` holds the fields of EngineInner under the names of the source,  *)
(* `poisoned` the poison flag of its mutex.                                 *)
(* `last` is the last call: its name, argument and result.  `hist` is      *)
(* observation only and never read by the modelled code: counters of what  *)
(* the engine did since construction or since the rates were seeded, and   *)
(* the log of the last critical section (samples consumed and appended,    *)
(* frames handed on, pushes), written at the place the code does it.       *)
(***************************************************************************)
EXTENDS Integers, Sequences, FiniteSets, TLC

VARIABLES inner, input_stream, output_stream, poisoned, last, hist

vars == <<inner, input_stream, output_stream, poisoned, last, hist>>

(***************************************************************************)
(* Program constants.  Rates are in Hz as in the source.  The frame        *)
(* divisor of the source is 100 (a 10 ms frame, 80 samples at the 8 kHz    *)
(* floor); the model scales it to 4000 so that a frame holds 2 or 3        *)
(* samples and frame boundaries are crossed within the bounds.             *)
(***************************************************************************)
SAMPLE_RATE_FLOOR == 8000
FRAME_DIVISOR == 4000
DEFAULT_SAMPLE_RATE == 24000
DEFAULT_STREAM_DELAY_MS == 30
DEFAULT_MAX_CAPTURE_FRAMES == 400
DEFAULT_READ_LIMIT == 64

(***************************************************************************)
(* Bounds of the model.                                                    *)
(***************************************************************************)
\* Samples submitted for playback over the engine's life.
MaxSubmitted == 2
\* Device samples, captured and rendered together, over the engine's life.
MaxDeviceSamples == 3
\* Calls of set_device_rates over the engine's life.
MaxSeeds == 2
\* Pipeline samples one callback advances: callbacks that would advance more
\* (a device rate far below the pipeline rate) are not explored.
MaxAdvance == 7

\* Option<T>: None is the empty sequence, Some(x) the sequence <<x>>.
None == <<>>
Some(x) == <<x>>

\* <<playback rate, capture rate>> of the default devices.
DeviceConfigs == {<<4000, 12000>>, <<12000, 4000>>, <<8000, 8000>>}
\* Device layers that report a rate of 0 for one of the two devices.
ZeroRateConfigs == {<<0, 8000>>, <<8000, 0>>}
CaptureBuffers == {<<300>>, <<-2, 300>>}
SlotCounts == {1, 2}
ReadLimits == {None, Some(0), Some(1)}
ApmOutcomes == {"pass", "mute"}
\* Delays handed to set_stream_delay_ms, and what the external processor
\* answers: Ok(()) or Err.
DelayValues == {0, 50}
ApmDelayOutcomes == {"accepted", "rejected"}

Min(a, b) == IF a <= b THEN a ELSE b
Max(a, b) == IF a >= b THEN a ELSE b

RECURSIVE SeqsOfLen(_, _)
SeqsOfLen(S, n) ==
    IF n = 0 THEN {<<>>}
    ELSE {Append(s, x) : s \in SeqsOfLen(S, n - 1), x \in S}

SeqsUpTo(S, n) == UNION {SeqsOfLen(S, k) : k \in 0..n}

RECURSIVE Flatten(_)
Flatten(ss) == IF ss = <<>> THEN <<>> ELSE Head(ss) \o Flatten(Tail(ss))

Zeros(n) == [i \in 1..n |-> 0]

(***************************************************************************)
(* 16-bit little-endian PCM.                                               *)
(***************************************************************************)
i16_from_le_bytes(lo, hi) ==
    LET u == lo + 256 * hi
    IN IF u >= 32768 THEN u - 65536 ELSE u

i16_to_le_bytes(sample) ==
    LET u == IF sample < 0 THEN sample + 65536 ELSE sample
    IN <<u % 256, u \div 256>>

pcm16_to_bytes(samples) ==
    [idx \in 1..(2 * Len(samples)) |->
        i16_to_le_bytes(samples[(idx + 1) \div 2])[2 - (idx % 2)]]

\* chunks_exact(2): the pairs of a byte buffer, a trailing odd byte left out.
decode_pcm16(pcm16) ==
    [k \in 1..(Len(pcm16) \div 2) |->
        i16_from_le_bytes(pcm16[2 * k - 1], pcm16[2 * k])]

\* Playback submissions: no bytes, one sample, two samples, and two of odd
\* length.
PlayBuffers ==
    {<<>>, pcm16_to_bytes(<<258>>), pcm16_to_bytes(<<-2, 258>>),
     <<7>>, pcm16_to_bytes(<<258>>) \o <<7>>}

(***************************************************************************)
(* Observation record.                                                     *)
(***************************************************************************)
NoLog ==
    [consumed |-> <<>>, render_frames |-> <<>>,
     capture_samples |-> <<>>, capture_apm_frames |-> <<>>, pushes |-> <<>>]

NoHistory ==
    [submitted |-> 0, device_samples |-> 0,
     raw_returned |-> 0, processed_returned |-> 0,
     seeds |-> 0,
     play_dev |-> 0, play_adv |-> 0, cap_dev |-> 0, cap_adv |-> 0,
     diverged |-> FALSE,
     log |-> NoLog]

\* The context a critical section starts from: the log is that of this
\* critical section alone.
Enter == [e |-> inner, h |-> [hist EXCEPT !.log = NoLog]]

(***************************************************************************)
(* EngineInner.  Each operator takes and returns a context c = [e, h]:     *)
(* e the EngineInner fields, h the observation record.  The counters of    *)
(* the source are u32 with saturating_add; the bounds keep them far below  *)
(* 2^32 - 1 (beyond the range of TLC's integers), so the addition is exact.*)
(***************************************************************************)
\* `let _ = self.apm.set_stream_delay_ms(delay_ms)`: the processor's answer
\* is dropped; a rejected delay leaves the processor's delay as it was.
set_stream_delay(c, delay_ms, answer) ==
    [e |-> [c.e EXCEPT !.apm_stream_delay_ms =
                           IF answer = "accepted" THEN delay_ms ELSE @],
     h |-> c.h]

\* Variant: seeding also discards the partial frames of both accumulators.
set_device_rates_reset(c, playback_rate, capture_rate) ==
    [e |-> [c.e EXCEPT !.playback_device_rate = Max(playback_rate, 1),
                       !.capture_device_rate = Max(capture_rate, 1),
                       !.playback_step_accum = Max(playback_rate, 1),
                       !.capture_step_accum = Max(capture_rate, 1),
                       !.render_accum = <<>>,
                       !.capture_accum = <<>>],
     h |-> [c.h EXCEPT !.seeds = @ + 1,
                       !.play_dev = 0, !.play_adv = 0,
                       !.cap_dev = 0, !.cap_adv = 0]]

\* Variant: the reported rates are stored as they are, without `.max(1)`.
set_device_rates_raw(c, playback_rate, capture_rate) ==
    [e |-> [c.e EXCEPT !.playback_device_rate = playback_rate,
                       !.capture_device_rate = capture_rate,
                       !.playback_step_accum = playback_rate,
                       !.capture_step_accum = capture_rate],
     h |-> [c.h EXCEPT !.seeds = @ + 1,
                       !.play_dev = 0, !.play_adv = 0,
                       !.cap_dev = 0, !.cap_adv = 0]]

set_device_rates(c, playback_rate, capture_rate) ==
    [e |-> [c.e EXCEPT !.playback_device_rate = Max(playback_rate, 1),
                       !.capture_device_rate = Max(capture_rate, 1),
                       !.playback_step_accum = Max(playback_rate, 1),
                       !.capture_step_accum = Max(capture_rate, 1)],
     h |-> [c.h EXCEPT !.seeds = @ + 1,
                       !.play_dev = 0, !.play_adv = 0,
                       !.cap_dev = 0, !.cap_adv = 0]]

queue_playback_bytes(c, pcm16) ==
    [e |-> [c.e EXCEPT !.playback_queue = @ \o decode_pcm16(pcm16)],
     h |-> [c.h EXCEPT !.submitted = @ + Len(decode_pcm16(pcm16))]]

\* Variant: the whole accumulator is cleared once a frame is copied out.
split_frame_clear(accum, frame_size) ==
    [frame |-> SubSeq(accum, 1, frame_size), rest |-> <<>>]

\* copy_from_slice(&accum[..frame_size]) and accum.drain(..frame_size).
split_frame(accum, frame_size) ==
    [frame |-> SubSeq(accum, 1, frame_size),
     rest |-> SubSeq(accum, frame_size + 1, Len(accum))]

\* Variant: `>` in place of `>=`, a full frame waits for one more sample.
RECURSIVE process_render_frames_late(_)
process_render_frames_late(c) ==
    IF Len(c.e.render_accum) > c.e.frame_size
    THEN LET frame == split_frame(c.e.render_accum, c.e.frame_size).frame
             rest == split_frame(c.e.render_accum, c.e.frame_size).rest
         IN process_render_frames_late(
                [e |-> [c.e EXCEPT !.render_accum = rest],
                 h |-> [c.h EXCEPT !.log.render_frames = Append(@, frame)]])
    ELSE c

\* The external processor's render call: only the call matters, its output
\* is discarded.
RECURSIVE process_render_frames(_)
process_render_frames(c) ==
    IF Len(c.e.render_accum) >= c.e.frame_size
    THEN LET frame == split_frame(c.e.render_accum, c.e.frame_size).frame
             rest == split_frame(c.e.render_accum, c.e.frame_size).rest
         IN process_render_frames(
                [e |-> [c.e EXCEPT !.render_accum = rest],
                 h |-> [c.h EXCEPT !.log.render_frames = Append(@, frame)]])
    ELSE c

\* Variant: an underrun repeats the held sample instead of yielding 0.
consume_playback_source_sample_hold(c) ==
    LET empty == c.e.playback_queue = <<>>
        sample == IF empty THEN c.e.last_playback_sample
                  ELSE Head(c.e.playback_queue)
        e1 == IF empty
              THEN [c.e EXCEPT !.stats.playback_underruns = @ + 1]
              ELSE [c.e EXCEPT !.playback_queue = Tail(@)]
        e2 == [e1 EXCEPT !.last_playback_sample = sample,
                         !.render_accum = Append(@, sample)]
    IN process_render_frames(
           [e |-> e2,
            h |-> [c.h EXCEPT
                      !.log.consumed =
                          Append(@, [sample |-> sample,
                                     pending |-> Len(c.e.playback_queue)])]])

consume_playback_source_sample(c) ==
    LET empty == c.e.playback_queue = <<>>
        sample == IF empty THEN 0 ELSE Head(c.e.playback_queue)
        e1 == IF empty
              THEN [c.e EXCEPT !.stats.playback_underruns = @ + 1]
              ELSE [c.e EXCEPT !.playback_queue = Tail(@)]
        e2 == [e1 EXCEPT !.last_playback_sample = sample,
                         !.render_accum = Append(@, sample)]
    IN process_render_frames(
           [e |-> e2,
            h |-> [c.h EXCEPT
                      !.log.consumed =
                          Append(@, [sample |-> sample,
                                     pending |-> Len(c.e.playback_queue)])]])

\* Variant: `if` in place of `while`, at most one sample per device sample.
render_advance_once(c) ==
    IF c.e.playback_step_accum >= c.e.playback_device_rate
    THEN consume_playback_source_sample(
             [e |-> [c.e EXCEPT !.playback_step_accum =
                                    @ - c.e.playback_device_rate],
              h |-> [c.h EXCEPT !.play_adv = @ + 1]])
    ELSE c

\* The while loop of next_output_sample.  With a device rate of 0 the
\* condition `accum >= 0` never turns false: the loop does not return, which
\* the observation record notes as `diverged`.
RECURSIVE render_advance(_)
render_advance(c) ==
    IF c.e.playback_device_rate = 0
    THEN [c EXCEPT !.h.diverged = TRUE]
    ELSE IF c.e.playback_step_accum >= c.e.playback_device_rate
    THEN render_advance(consume_playback_source_sample(
             [e |-> [c.e EXCEPT !.playback_step_accum =
                                    @ - c.e.playback_device_rate],
              h |-> [c.h EXCEPT !.play_adv = @ + 1]]))
    ELSE c

\* Returns the context after the call; the sample returned is
\* last_playback_sample of that context.
next_output_sample(c) ==
    render_advance(
        [e |-> [c.e EXCEPT !.playback_step_accum = @ + c.e.target_sample_rate],
         h |-> [c.h EXCEPT !.play_dev = @ + 1, !.device_samples = @ + 1]])

\* pop_front of the eviction: Some(frame) as <<frame>>, None as <<>>.
push_frame_with_cap(queue, frame, cap, dropped_counter) ==
    LET full == Len(queue) >= cap
        popped == IF full /\ queue # <<>> THEN <<Head(queue)>> ELSE <<>>
        kept == IF full /\ queue # <<>> THEN Tail(queue) ELSE queue
    IN [queue |-> Append(kept, frame),
        dropped |-> IF full THEN dropped_counter + 1 ELSE dropped_counter,
        popped |-> popped]

\* The external processor's capture call writes into `out`, which starts as
\* zeros; "pass" leaves the signal as it is, "mute" leaves out all zero (the
\* call's result is ignored by the caller).
process_capture_i16(apm, frame) ==
    IF apm = "pass" THEN frame ELSE Zeros(Len(frame))

\* What one push did: the queue and its dropped counter before and after,
\* the frame popped by the eviction, the sample frame it encodes and the
\* value of the queue's frame counter at the push.
PushEvent(name, frame, src, nth, queue, dropped_counter, r) ==
    [queue |-> name, frame |-> frame, src |-> src, nth |-> nth,
     before |-> queue, after |-> r.queue, popped |-> r.popped,
     dropped_before |-> dropped_counter, dropped_after |-> r.dropped]

\* Variant: a frame the processor fails on is not pushed to the processed
\* queue.
RECURSIVE process_capture_frames_skip(_, _)
process_capture_frames_skip(c, apm) ==
    IF Len(c.e.capture_accum) >= c.e.frame_size
    THEN LET frame == split_frame(c.e.capture_accum, c.e.frame_size).frame
             rest == split_frame(c.e.capture_accum, c.e.frame_size).rest
             raw == pcm16_to_bytes(frame)
             r1 == push_frame_with_cap(c.e.raw_frames, raw,
                                       c.e.max_capture_frames,
                                       c.e.stats.dropped_raw_frames)
             processed == IF c.e.enable_aec
                          THEN process_capture_i16(apm, frame)
                          ELSE frame
             processed_bytes == pcm16_to_bytes(processed)
             r2 == push_frame_with_cap(c.e.processed_frames, processed_bytes,
                                       c.e.max_capture_frames,
                                       c.e.stats.dropped_processed_frames)
             failed == c.e.enable_aec /\ apm = "mute"
             e0 == [c.e EXCEPT !.capture_accum = rest,
                               !.stats.capture_frames = @ + 1,
                               !.raw_frames = r1.queue,
                               !.stats.dropped_raw_frames = r1.dropped]
             e1 == IF failed THEN e0
                   ELSE [e0 EXCEPT
                            !.stats.processed_frames = @ + 1,
                            !.processed_frames = r2.queue,
                            !.stats.dropped_processed_frames = r2.dropped]
             h1 == [c.h EXCEPT
                       !.log.pushes = @ \o
                           <<PushEvent("raw", raw, frame,
                                       e1.stats.capture_frames,
                                       c.e.raw_frames,
                                       c.e.stats.dropped_raw_frames, r1),
                             PushEvent("processed", processed_bytes, frame,
                                       e1.stats.processed_frames,
                                       c.e.processed_frames,
                                       c.e.stats.dropped_processed_frames, r2)>>,
                       !.log.capture_apm_frames =
                           IF c.e.enable_aec THEN Append(@, frame) ELSE @]
         IN process_capture_frames_skip([e |-> e1, h |-> h1], apm)
    ELSE c

RECURSIVE process_capture_frames(_, _)
process_capture_frames(c, apm) ==
    IF Len(c.e.capture_accum) >= c.e.frame_size
    THEN LET frame == split_frame(c.e.capture_accum, c.e.frame_size).frame
             rest == split_frame(c.e.capture_accum, c.e.frame_size).rest
             raw == pcm16_to_bytes(frame)
             r1 == push_frame_with_cap(c.e.raw_frames, raw,
                                       c.e.max_capture_frames,
                                       c.e.stats.dropped_raw_frames)
             processed == IF c.e.enable_aec
                          THEN process_capture_i16(apm, frame)
                          ELSE frame
             processed_bytes == pcm16_to_bytes(processed)
             r2 == push_frame_with_cap(c.e.processed_frames, processed_bytes,
                                       c.e.max_capture_frames,
                                       c.e.stats.dropped_processed_frames)
             e1 == [c.e EXCEPT !.capture_accum = rest,
                               !.stats.capture_frames = @ + 1,
                               !.raw_frames = r1.queue,
                               !.stats.dropped_raw_frames = r1.dropped,
                               !.stats.processed_frames = @ + 1,
                               !.processed_frames = r2.queue,
                               !.stats.dropped_processed_frames = r2.dropped]
             h1 == [c.h EXCEPT
                       !.log.pushes = @ \o
                           <<PushEvent("raw", raw, frame,
                                       e1.stats.capture_frames,
                                       c.e.raw_frames,
                                       c.e.stats.dropped_raw_frames, r1),
                             PushEvent("processed", processed_bytes, frame,
                                       e1.stats.processed_frames,
                                       c.e.processed_frames,
                                       c.e.stats.dropped_processed_frames, r2)>>,
                       !.log.capture_apm_frames =
                           IF c.e.enable_aec THEN Append(@, frame) ELSE @]
         IN process_capture_frames([e |-> e1, h |-> h1], apm)
    ELSE c

\* The while loop of on_captured_device_sample; a device rate of 0 as in
\* render_advance.
RECURSIVE capture_advance(_, _)
capture_advance(c, sample) ==
    IF c.e.capture_device_rate = 0
    THEN [c EXCEPT !.h.diverged = TRUE]
    ELSE IF c.e.capture_step_accum >= c.e.capture_device_rate
    THEN capture_advance(
             [e |-> [c.e EXCEPT !.capture_step_accum =
                                    @ - c.e.capture_device_rate,
                                !.capture_accum = Append(@, sample)],
              h |-> [c.h EXCEPT !.cap_adv = @ + 1,
                                !.log.capture_samples = Append(@, sample)]],
             sample)
    ELSE c

on_captured_device_sample(c, sample, apm) ==
    process_capture_frames(
        capture_advance(
            [e |-> [c.e EXCEPT !.capture_step_accum =
                                   @ + c.e.target_sample_rate],
             h |-> [c.h EXCEPT !.cap_dev = @ + 1, !.device_samples = @ + 1]],
            sample),
        apm)

\* Variant: pop_back in place of pop_front.
pop_frames_newest(queue, limit) ==
    LET take == Min(limit, Len(queue))
    IN [out |-> [i \in 1..take |-> queue[Len(queue) - i + 1]],
        queue |-> SubSeq(queue, 1, Len(queue) - take)]

pop_frames(queue, limit) ==
    LET take == Min(limit, Len(queue))
    IN [out |-> SubSeq(queue, 1, take),
        queue |-> SubSeq(queue, take + 1, Len(queue))]

(***************************************************************************)
(* AudioEngine::new.                                                       *)
(***************************************************************************)
Options(sample_rate, enable_aec, max_capture_frames) ==
    [sample_rate |-> sample_rate, enable_aec |-> enable_aec,
     stream_delay_ms |-> None, max_capture_frames |-> max_capture_frames]

\* The engines constructed: a rate below the floor and one above it, echo
\* cancellation on (the default) and off, capacities 0, 1 and 2.
OptionSet ==
    {Options(Some(0), None, Some(0)),
     Options(Some(12000), Some(FALSE), Some(1)),
     Options(Some(0), Some(FALSE), Some(2)),
     Options(Some(12000), None, Some(1))}

unwrap_or(opt, default) == IF opt = None THEN default ELSE opt[1]

new(options) ==
    LET sample_rate == Max(unwrap_or(options.sample_rate, DEFAULT_SAMPLE_RATE),
                           SAMPLE_RATE_FLOOR)
        enable_aec == unwrap_or(options.enable_aec, TRUE)
        stream_delay_ms == unwrap_or(options.stream_delay_ms,
                                     DEFAULT_STREAM_DELAY_MS)
        max_capture_frames == unwrap_or(options.max_capture_frames,
                                        DEFAULT_MAX_CAPTURE_FRAMES)
        frame_size == sample_rate \div FRAME_DIVISOR
    IN [target_sample_rate |-> sample_rate,
        frame_size |-> frame_size,
        enable_aec |-> enable_aec,
        max_capture_frames |-> max_capture_frames,
        apm_stream_delay_ms |-> stream_delay_ms,
        playback_queue |-> <<>>,
        render_accum |-> <<>>,
        capture_accum |-> <<>>,
        raw_frames |-> <<>>,
        processed_frames |-> <<>>,
        playback_device_rate |-> sample_rate,
        capture_device_rate |-> sample_rate,
        playback_step_accum |-> sample_rate,
        capture_step_accum |-> sample_rate,
        last_playback_sample |-> 0,
        stats |-> [capture_frames |-> 0, processed_frames |-> 0,
                   playback_underruns |-> 0, dropped_raw_frames |-> 0,
                   dropped_processed_frames |-> 0]]

Init ==
    /\ \E options \in OptionSet :
         /\ inner = new(options)
         /\ last = [op |-> "new", arg |-> options, ok |-> TRUE, value |-> None]
    /\ input_stream = FALSE
    /\ output_stream = FALSE
    /\ poisoned = FALSE
    /\ hist = NoHistory

(***************************************************************************)
(* AudioEngine control surface.                                            *)
(***************************************************************************)
\* self.inner.lock() on a poisoned mutex: the call returns the error and
\* touches nothing.
lock_poisoned(op, arg) ==
    /\ last' = [op |-> op, arg |-> arg, ok |-> FALSE,
                value |-> "audio engine lock poisoned"]
    /\ hist' = Enter.h
    /\ UNCHANGED <<inner, input_stream, output_stream, poisoned>>

\* "no_device": a failure before the lock is taken (no default device, no
\* default config); "stream_failed": a failure after the rates are set
\* (stream build or stream play), the streams built so far are dropped on
\* return.
StartOutcomes == {"ok", "no_device", "stream_failed"}

\* Variant: no early return, a started engine opens its devices again.
start_reopen(playback_rate, capture_rate, outcome) ==
    IF outcome = "no_device"
    THEN /\ last' = [op |-> "start", arg |-> None, ok |-> FALSE,
                     value |-> outcome]
         /\ hist' = Enter.h
         /\ UNCHANGED <<inner, input_stream, output_stream, poisoned>>
    ELSE IF poisoned
    THEN lock_poisoned("start", None)
    ELSE LET c == set_device_rates(Enter, playback_rate, capture_rate)
         IN /\ inner' = c.e
            /\ hist' = c.h
            /\ input_stream' = (outcome = "ok")
            /\ output_stream' = (outcome = "ok")
            /\ UNCHANGED poisoned
            /\ last' = [op |-> "start", arg |-> <<playback_rate, capture_rate>>,
                        ok |-> (outcome = "ok"), value |-> outcome]

\* Variant: the input stream is stored as soon as it plays, before the
\* output stream is built.
start_keep_input(playback_rate, capture_rate, outcome) ==
    IF input_stream \/ output_stream
    THEN /\ last' = [op |-> "start", arg |-> None, ok |-> TRUE,
                     value |-> "already"]
         /\ hist' = Enter.h
         /\ UNCHANGED <<inner, input_stream, output_stream, poisoned>>
    ELSE IF outcome = "no_device"
    THEN /\ last' = [op |-> "start", arg |-> None, ok |-> FALSE,
                     value |-> outcome]
         /\ hist' = Enter.h
         /\ UNCHANGED <<inner, input_stream, output_stream, poisoned>>
    ELSE IF poisoned
    THEN lock_poisoned("start", None)
    ELSE LET c == set_device_rates(Enter, playback_rate, capture_rate)
         IN /\ inner' = c.e
            /\ hist' = c.h
            /\ input_stream' = TRUE
            /\ output_stream' = (outcome = "ok")
            /\ UNCHANGED poisoned
            /\ last' = [op |-> "start", arg |-> <<playback_rate, capture_rate>>,
                        ok |-> (outcome = "ok"), value |-> outcome]

start(playback_rate, capture_rate, outcome) ==
    IF input_stream \/ output_stream
    THEN /\ last' = [op |-> "start", arg |-> None, ok |-> TRUE,
                     value |-> "already"]
         /\ hist' = Enter.h
         /\ UNCHANGED <<inner, input_stream, output_stream, poisoned>>
    ELSE IF outcome = "no_device"
    THEN /\ last' = [op |-> "start", arg |-> None, ok |-> FALSE,
                     value |-> outcome]
         /\ hist' = Enter.h
         /\ UNCHANGED <<inner, input_stream, output_stream, poisoned>>
    ELSE IF poisoned
    THEN lock_poisoned("start", None)
    ELSE LET c == set_device_rates(Enter, playback_rate, capture_rate)
         IN /\ inner' = c.e
            /\ hist' = c.h
            /\ input_stream' = (outcome = "ok")
            /\ output_stream' = (outcome = "ok")
            /\ UNCHANGED poisoned
            /\ last' = [op |-> "start", arg |-> <<playback_rate, capture_rate>>,
                        ok |-> (outcome = "ok"), value |-> outcome]

Start ==
    \E rates \in DeviceConfigs, outcome \in StartOutcomes :
        /\ hist.seeds < MaxSeeds
        /\ start(rates[1], rates[2], outcome)

\* start on a device layer that reports a sample rate of 0.
StartZeroRate ==
    \E rates \in ZeroRateConfigs, outcome \in StartOutcomes :
        /\ hist.seeds < MaxSeeds
        /\ start(rates[1], rates[2], outcome)

\* Variant: stopping also flushes the playback queue.
stop_flush(op) ==
    /\ input_stream' = FALSE
    /\ output_stream' = FALSE
    /\ inner' = [inner EXCEPT !.playback_queue = <<>>]
    /\ last' = [op |-> op, arg |-> None, ok |-> TRUE, value |-> None]
    /\ hist' = Enter.h
    /\ UNCHANGED poisoned

stop(op) ==
    /\ input_stream' = FALSE
    /\ output_stream' = FALSE
    /\ last' = [op |-> op, arg |-> None, ok |-> TRUE, value |-> None]
    /\ hist' = Enter.h
    /\ UNCHANGED <<inner, poisoned>>

Stop == stop("stop")

Close == stop("close")

\* Variant: no length check, the whole pairs of the buffer are queued.
play_unchecked(pcm16) ==
    LET c == queue_playback_bytes(Enter, pcm16)
    IN /\ inner' = c.e
       /\ hist' = c.h
       /\ last' = [op |-> "play", arg |-> pcm16, ok |-> TRUE, value |-> None]
       /\ UNCHANGED <<input_stream, output_stream, poisoned>>

play(pcm16) ==
    IF Len(pcm16) % 2 # 0
    THEN /\ last' = [op |-> "play", arg |-> pcm16, ok |-> FALSE,
                     value |-> "play() expects 16-bit PCM (even byte length)"]
         /\ hist' = Enter.h
         /\ UNCHANGED <<inner, input_stream, output_stream, poisoned>>
    ELSE IF poisoned
    THEN lock_poisoned("play", pcm16)
    ELSE LET c == queue_playback_bytes(Enter, pcm16)
         IN /\ inner' = c.e
            /\ hist' = c.h
            /\ last' = [op |-> "play", arg |-> pcm16, ok |-> TRUE, value |-> None]
            /\ UNCHANGED <<input_stream, output_stream, poisoned>>

Play ==
    \E pcm16 \in PlayBuffers :
        /\ hist.submitted + Len(pcm16) \div 2 <= MaxSubmitted
        /\ play(pcm16)

read_processed_capture(max_frames) ==
    LET limit == unwrap_or(max_frames, DEFAULT_READ_LIMIT)
        r == pop_frames(inner.processed_frames, limit)
    IN IF poisoned THEN lock_poisoned("read_processed_capture", max_frames) ELSE
       /\ inner' = [inner EXCEPT !.processed_frames = r.queue]
       /\ hist' = [Enter.h EXCEPT !.processed_returned = @ + Len(r.out)]
       /\ last' = [op |-> "read_processed_capture", arg |-> max_frames,
                   ok |-> TRUE, value |-> r.out]
       /\ UNCHANGED <<input_stream, output_stream, poisoned>>

ReadProcessedCapture ==
    \E max_frames \in ReadLimits : read_processed_capture(max_frames)

read_raw_capture(max_frames) ==
    LET limit == unwrap_or(max_frames, DEFAULT_READ_LIMIT)
        r == pop_frames(inner.raw_frames, limit)
    IN IF poisoned THEN lock_poisoned("read_raw_capture", max_frames) ELSE
       /\ inner' = [inner EXCEPT !.raw_frames = r.queue]
       /\ hist' = [Enter.h EXCEPT !.raw_returned = @ + Len(r.out)]
       /\ last' = [op |-> "read_raw_capture", arg |-> max_frames,
                   ok |-> TRUE, value |-> r.out]
       /\ UNCHANGED <<input_stream, output_stream, poisoned>>

ReadRawCapture ==
    \E max_frames \in ReadLimits : read_raw_capture(max_frames)

\* Variant: the counters are reset once they are reported.
get_stats_reset ==
    IF poisoned THEN lock_poisoned("get_stats", None) ELSE
    /\ last' = [op |-> "get_stats", arg |-> None, ok |-> TRUE,
                value |-> [capture_frames |-> inner.stats.capture_frames,
                           processed_frames |-> inner.stats.processed_frames,
                           playback_underruns |-> inner.stats.playback_underruns,
                           pending_playback_samples |-> Len(inner.playback_queue),
                           dropped_raw_frames |-> inner.stats.dropped_raw_frames,
                           dropped_processed_frames |->
                               inner.stats.dropped_processed_frames]]
    /\ inner' = [inner EXCEPT !.stats = [capture_frames |-> 0,
                                         processed_frames |-> 0,
                                         playback_underruns |-> 0,
                                         dropped_raw_frames |-> 0,
                                         dropped_processed_frames |-> 0]]
    /\ hist' = Enter.h
    /\ UNCHANGED <<input_stream, output_stream, poisoned>>

\* last.value records the processor's answer; the call's own result is ok.
set_stream_delay_ms(delay_ms, answer) ==
    IF poisoned THEN lock_poisoned("set_stream_delay_ms", delay_ms) ELSE
    LET c == set_stream_delay(Enter, delay_ms, answer)
    IN /\ inner' = c.e
       /\ hist' = c.h
       /\ last' = [op |-> "set_stream_delay_ms", arg |-> delay_ms,
                   ok |-> TRUE, value |-> answer]
       /\ UNCHANGED <<input_stream, output_stream, poisoned>>

SetStreamDelayMs ==
    \E delay_ms \in DelayValues, answer \in ApmDelayOutcomes :
        set_stream_delay_ms(delay_ms, answer)

get_stats ==
    IF poisoned THEN lock_poisoned("get_stats", None) ELSE
    /\ last' = [op |-> "get_stats", arg |-> None, ok |-> TRUE,
                value |-> [capture_frames |-> inner.stats.capture_frames,
                           processed_frames |-> inner.stats.processed_frames,
                           playback_underruns |-> inner.stats.playback_underruns,
                           pending_playback_samples |-> Len(inner.playback_queue),
                           dropped_raw_frames |-> inner.stats.dropped_raw_frames,
                           dropped_processed_frames |->
                               inner.stats.dropped_processed_frames]]
    /\ hist' = Enter.h
    /\ UNCHANGED <<inner, input_stream, output_stream, poisoned>>

GetStats == get_stats

(***************************************************************************)
(* Device callbacks.  A callback runs only while its stream exists, and    *)
(* holds the lock for the whole buffer.  `data` is the first sample of     *)
(* each device frame (chunks(channels), frame.first()), already converted  *)
(* to i16.                                                                 *)
(***************************************************************************)
\* The loop of n device samples runs at most MaxAdvance times (a rate of 0
\* is let through: its loop is cut short by `diverged`).
WithinAdvance(accum, n, device_rate) ==
    \/ device_rate = 0
    \/ (accum + n * inner.target_sample_rate) \div device_rate <= MaxAdvance

RECURSIVE capture_each(_, _, _)
capture_each(c, data, apm) ==
    IF data = <<>> THEN c
    ELSE capture_each(on_captured_device_sample(c, Head(data), apm),
                      Tail(data), apm)

input_callback(data, apm) ==
    LET c == capture_each(Enter, data, apm)
    IN IF poisoned
       THEN /\ last' = [op |-> "input_callback", arg |-> data, ok |-> FALSE,
                        value |-> None]
            /\ hist' = Enter.h
            /\ UNCHANGED <<inner, input_stream, output_stream, poisoned>>
       ELSE
       /\ inner' = c.e
       /\ hist' = c.h
       /\ last' = [op |-> "input_callback", arg |-> data, ok |-> TRUE,
                   value |-> None]
       /\ UNCHANGED <<input_stream, output_stream, poisoned>>

InputCallback ==
    /\ input_stream
    /\ \E n \in SlotCounts :
         \E data \in {d \in CaptureBuffers : Len(d) = n}, apm \in ApmOutcomes :
            /\ hist.device_samples + n <= MaxDeviceSamples
            /\ WithinAdvance(inner.capture_step_accum, n,
                             inner.capture_device_rate)
            /\ input_callback(data, apm)

\* The output buffer, one sample per device frame, and the context after it.
RECURSIVE render_each(_, _, _)
render_each(c, slots, out) ==
    IF slots = 0 THEN [c |-> c, out |-> out]
    ELSE LET c1 == next_output_sample(c)
         IN render_each(c1, slots - 1, Append(out, c1.e.last_playback_sample))

output_callback(slots) ==
    LET r == render_each(Enter, slots, <<>>)
    IN IF poisoned
       THEN /\ last' = [op |-> "output_callback", arg |-> slots, ok |-> FALSE,
                        value |-> Zeros(slots)]
            /\ hist' = Enter.h
            /\ UNCHANGED <<inner, input_stream, output_stream, poisoned>>
       ELSE
       /\ inner' = r.c.e
       /\ hist' = r.c.h
       /\ last' = [op |-> "output_callback", arg |-> slots, ok |-> TRUE,
                   value |-> r.out]
       /\ UNCHANGED <<input_stream, output_stream, poisoned>>

OutputCallback ==
    /\ output_stream
    /\ \E slots \in SlotCounts :
         /\ hist.device_samples + slots <= MaxDeviceSamples
         /\ WithinAdvance(inner.playback_step_accum, slots,
                          inner.playback_device_rate)
         /\ output_callback(slots)

\* A device callback panics while it holds the guard (inside the external
\* processor): the mutex is poisoned from then on.  What the interrupted
\* callback had done before the panic is left out.
CallbackPanic ==
    /\ input_stream \/ output_stream
    /\ ~poisoned
    /\ poisoned' = TRUE
    /\ last' = [op |-> "callback_panic", arg |-> None, ok |-> FALSE,
                value |-> None]
    /\ hist' = Enter.h
    /\ UNCHANGED <<inner, input_stream, output_stream>>

Next ==
    \/ Start
    \/ StartZeroRate
    \/ Stop
    \/ Close
    \/ Play
    \/ ReadProcessedCapture
    \/ ReadRawCapture
    \/ SetStreamDelayMs
    \/ GetStats
    \/ InputCallback
    \/ OutputCallback
    \/ CallbackPanic

Spec == Init /\ [][Next]_vars

\* The capture side alone: the controller submits no playback and the render
\* device asks for no buffers.
NextCapture ==
    \/ Start
    \/ Stop
    \/ Close
    \/ ReadProcessedCapture
    \/ ReadRawCapture
    \/ GetStats
    \/ InputCallback

SpecCapture == Init /\ [][NextCapture]_vars

\* The playback side alone: the capture device delivers no buffers.
NextPlayback ==
    \/ Start
    \/ Stop
    \/ Close
    \/ Play
    \/ GetStats
    \/ OutputCallback

SpecPlayback == Init /\ [][NextPlayback]_vars

\* Both callbacks interleaved with stream control: every stop followed by a
\* start seeds the device rates and both accumulators again.
NextRates ==
    \/ Start
    \/ Stop
    \/ InputCallback
    \/ OutputCallback

SpecRates == Init /\ [][NextRates]_vars

\* Both callbacks and playback submissions on streams that, once opened, stay
\* open: stop leaves EngineInner untouched, so the accumulators a callback
\* finds are the ones the previous callback left.
NextFrames ==
    \/ Start
    \/ Play
    \/ InputCallback
    \/ OutputCallback

SpecFrames == Init /\ [][NextFrames]_vars

\* The control surface with a lock that can be poisoned; no device buffer
\* is delivered.
NextControl ==
    \/ Start
    \/ Stop
    \/ Close
    \/ Play
    \/ ReadProcessedCapture
    \/ ReadRawCapture
    \/ SetStreamDelayMs
    \/ GetStats
    \/ CallbackPanic

SpecControl == Init /\ [][NextControl]_vars

\* Everything the statistics count, on streams that stay open: both
\* callbacks, playback submissions and snapshots.
NextStats ==
    \/ Start
    \/ Play
    \/ GetStats
    \/ InputCallback
    \/ OutputCallback

SpecStats == Init /\ [][NextStats]_vars

\* Stream control and both callbacks, with device layers that report a rate
\* of 0 among the ones started on.
NextSeeding ==
    \/ Start
    \/ StartZeroRate
    \/ Stop
    \/ InputCallback
    \/ OutputCallback

SpecSeeding == Init /\ [][NextSeeding]_vars

(***************************************************************************)
(* Properties.                                                             *)
(***************************************************************************)
Abs(x) == IF x < 0 THEN -x ELSE x

Count(seq, Test(_)) == Cardinality({i \in DOMAIN seq : Test(seq[i])})

Srcs(pushes, name) ==
    LET of == SelectSeq(pushes, LAMBDA ev : ev.queue = name)
    IN [i \in DOMAIN of |-> of[i].src]

ReadLimit(max_frames) == IF max_frames = None THEN 64 ELSE max_frames[1]

\* C1: raw_frames and processed_frames never hold more than
\* max_capture_frames frames, for every capacity an engine is built with.
QueueWithinCapacity ==
    /\ Len(inner.raw_frames) <= inner.max_capture_frames
    /\ Len(inner.processed_frames) <= inner.max_capture_frames

\* C2: a push onto a queue at capacity evicts exactly the oldest frame,
\* appends the new one and adds 1 to the dropped counter; a push below
\* capacity evicts nothing and leaves the counter alone; the counter moves by
\* one per eviction and never without one.
PushEvictsOldestWhenFull ==
    \A i \in DOMAIN hist.log.pushes :
        LET ev == hist.log.pushes[i]
        IN /\ IF Len(ev.before) >= inner.max_capture_frames
              THEN /\ ev.before # <<>>
                   /\ ev.popped = <<Head(ev.before)>>
                   /\ ev.after = Append(Tail(ev.before), ev.frame)
                   /\ ev.dropped_after = ev.dropped_before + 1
              ELSE /\ ev.popped = <<>>
                   /\ ev.after = Append(ev.before, ev.frame)
                   /\ ev.dropped_after = ev.dropped_before
           /\ ev.dropped_after - ev.dropped_before = Len(ev.popped)

\* C3: whenever the lock is free, as many frames have been pushed to the
\* processed queue as to the raw queue, and the k-th processed push carries
\* the frame derived from the sample frame of the k-th raw push.
CaptureOneToOne ==
    /\ inner.stats.processed_frames = inner.stats.capture_frames
    /\ LET pushes == hist.log.pushes
       IN /\ Len(pushes) % 2 = 0
          /\ \A j \in 1..(Len(pushes) \div 2) :
                LET raw == pushes[2 * j - 1]
                    processed == pushes[2 * j]
                IN /\ raw.queue = "raw"
                   /\ processed.queue = "processed"
                   /\ raw.nth = processed.nth
                   /\ raw.nth = inner.stats.capture_frames
                                    - (Len(pushes) \div 2) + j
                   /\ decode_pcm16(raw.frame) = raw.src
                   /\ processed.src = raw.src
                   /\ IF inner.enable_aec
                      THEN decode_pcm16(processed.frame)
                               \in {raw.src, Zeros(Len(raw.src))}
                      ELSE processed.frame = raw.frame

CaptureOneToOneWitness ==
    /\ last.op = "input_callback"
    /\ inner.enable_aec
    /\ Len(hist.log.pushes) = 4
    /\ inner.stats.capture_frames >= 3
    /\ hist.log.pushes[2].frame # hist.log.pushes[1].frame

\* C4: every frame handed to the processor or pushed to a queue holds
\* exactly frame_size samples, and the frames of a direction cut that
\* direction's pipeline-rate samples in order: what was in the accumulator
\* followed by what the callback appended is the frames it delivered followed
\* by what it left in the accumulator.
FramesPartitionSamples ==
    [][/\ last'.op = "output_callback" =>
            LET frames == hist'.log.render_frames
                samples == [i \in DOMAIN hist'.log.consumed |->
                               hist'.log.consumed[i].sample]
            IN /\ \A i \in DOMAIN frames : Len(frames[i]) = inner.frame_size
               /\ inner.render_accum \o samples
                      = Flatten(frames) \o inner'.render_accum
       /\ last'.op = "input_callback" =>
            LET pushes == hist'.log.pushes
                frames == Srcs(pushes, "raw")
            IN /\ \A i \in DOMAIN frames : Len(frames[i]) = inner.frame_size
               /\ \A i \in DOMAIN pushes :
                      Len(pushes[i].frame) = 2 * inner.frame_size
               /\ Srcs(pushes, "processed") = frames
               /\ hist'.log.capture_apm_frames
                      = IF inner.enable_aec THEN frames ELSE <<>>
               /\ inner.capture_accum \o hist'.log.capture_samples
                      = Flatten(frames) \o inner'.capture_accum
      ]_vars

FramesPartitionSamplesWitness ==
    /\ last.op = "input_callback"
    /\ Len(hist.log.pushes) = 4
    /\ inner.capture_accum # <<>>
    /\ Len(hist.log.capture_samples) > 2 * inner.frame_size

\* C5: in each direction, M device samples after the rates were seeded, the
\* number of pipeline samples advanced differs from M * pipeline_rate /
\* device_rate by at most 1.
RateDriftWithinOne ==
    /\ Abs(hist.play_adv * inner.playback_device_rate
               - hist.play_dev * inner.target_sample_rate)
           <= inner.playback_device_rate
    /\ Abs(hist.cap_adv * inner.capture_device_rate
               - hist.cap_dev * inner.target_sample_rate)
           <= inner.capture_device_rate

RateDriftWitness ==
    /\ hist.play_dev >= 2
    /\ hist.cap_dev >= 1
    /\ inner.playback_device_rate # inner.target_sample_rate
    /\ hist.play_adv > hist.play_dev

\* C6: the consume-ones of a render callback that find the playback queue
\* empty each yield 0 and together add exactly their number to
\* playback_underruns; the others take the oldest samples of the queue in
\* order and leave the counter alone.
UnderrunAccounting ==
    [][last'.op = "output_callback" =>
          LET evs == hist'.log.consumed
              queue == inner.playback_queue
              taken == Min(Len(evs), Len(queue))
          IN /\ inner'.stats.playback_underruns
                    = inner.stats.playback_underruns + (Len(evs) - taken)
             /\ \A i \in 1..taken :
                    /\ evs[i].pending = Len(queue) - i + 1
                    /\ evs[i].sample = queue[i]
             /\ \A i \in (taken + 1)..Len(evs) :
                    /\ evs[i].pending = 0
                    /\ evs[i].sample = 0
             /\ inner'.playback_queue = SubSeq(queue, taken + 1, Len(queue))
      ]_vars

UnderrunAccountingWitness ==
    /\ last.op = "output_callback"
    /\ Count(hist.log.consumed, LAMBDA ev : ev.pending > 0) >= 1
    /\ Count(hist.log.consumed, LAMBDA ev : ev.pending = 0) >= 2
    /\ inner.stats.playback_underruns >= 2

\* The render converter was seeded 1:1 and has rendered nothing since, the
\* last call submitted the samples now in the playback queue, no underrun is
\* recorded.
FreshlySeededOneToOne ==
    /\ last.op = "play"
    /\ last.ok
    /\ inner.playback_device_rate = inner.target_sample_rate
    /\ inner.playback_step_accum = inner.playback_device_rate
    /\ hist.play_dev = 0
    /\ inner.playback_queue = decode_pcm16(last.arg)
    /\ inner.playback_queue # <<>>
    /\ inner.stats.playback_underruns = 0

\* C7: seeded 1:1, after a submission of N samples and one render callback
\* of N slots no sample is pending and no underrun is recorded.
ExactBufferNoUnderrun ==
    [][(/\ FreshlySeededOneToOne
        /\ last'.op = "output_callback"
        /\ last'.arg = Len(inner.playback_queue))
       => /\ Len(inner'.playback_queue) = 0
          /\ inner'.stats.playback_underruns = 0
      ]_vars

\* C8: seeded 1:1, after a submission of K samples and one render callback
\* of M > K slots the first K output samples are the submitted samples in
\* order, the other M - K are 0, and playback_underruns is M - K.
ShortBufferOutput ==
    [][(/\ FreshlySeededOneToOne
        /\ last'.op = "output_callback"
        /\ last'.arg > Len(inner.playback_queue))
       => LET K == Len(inner.playback_queue)
              M == last'.arg
          IN /\ Len(last'.value) = M
             /\ SubSeq(last'.value, 1, K) = inner.playback_queue
             /\ \A i \in (K + 1)..M : last'.value[i] = 0
             /\ inner'.stats.playback_underruns = M - K
      ]_vars

\* C9: a drain of n returns the min(n, length) oldest frames of its queue,
\* oldest first, removes them, keeps the order of the rest and changes
\* nothing else; on an empty queue it returns the empty sequence.
DrainOldestFirst ==
    [][/\ last'.op = "read_raw_capture" =>
            LET queue == inner.raw_frames
                take == Min(ReadLimit(last'.arg), Len(queue))
            IN /\ last'.ok
               /\ Len(last'.value) = take
               /\ \A i \in 1..take : last'.value[i] = queue[i]
               /\ last'.value \o inner'.raw_frames = queue
               /\ inner' = [inner EXCEPT !.raw_frames = inner'.raw_frames]
       /\ last'.op = "read_processed_capture" =>
            LET queue == inner.processed_frames
                take == Min(ReadLimit(last'.arg), Len(queue))
            IN /\ last'.ok
               /\ Len(last'.value) = take
               /\ \A i \in 1..take : last'.value[i] = queue[i]
               /\ last'.value \o inner'.processed_frames = queue
               /\ inner' = [inner EXCEPT
                               !.processed_frames = inner'.processed_frames]
      ]_vars

DrainOldestFirstWitness ==
    /\ last.op = "read_raw_capture"
    /\ last.arg = Some(1)
    /\ Len(last.value) = 1
    /\ inner.raw_frames # <<>>
    /\ inner.raw_frames[1] # last.value[1]

\* C10: play with an odd byte length fails and changes nothing of the engine
\* state; with 2k bytes it succeeds and appends the k samples the bytes encode,
\* in input order, to the tail of the playback queue.
PlayValidatesLength ==
    [][last'.op = "play" =>
          LET bytes == last'.arg
              k == Len(bytes) \div 2
              before == Len(inner.playback_queue)
          IN IF Len(bytes) % 2 = 1
             THEN /\ ~last'.ok
                  /\ inner' = inner
             ELSE /\ last'.ok
                  /\ Len(inner'.playback_queue) = before + k
                  /\ SubSeq(inner'.playback_queue, 1, before)
                         = inner.playback_queue
                  /\ \A j \in 1..k :
                         i16_to_le_bytes(inner'.playback_queue[before + j])
                             = <<bytes[2 * j - 1], bytes[2 * j]>>
                  /\ inner' = [inner EXCEPT
                                  !.playback_queue = inner'.playback_queue]
      ]_vars

PlayValidatesLengthWitness ==
    /\ last.op = "play"
    /\ ~last.ok
    /\ Len(last.arg) = 3
    /\ inner.playback_queue # <<>>

\* C11: constructing the engine fails whenever the pipeline sample rate or
\* the queue capacity asked for is not positive: no engine exists that was
\* built from such options.
ConfigureRejectsNonPositive ==
    (last.op = "new" /\ last.ok)
        => /\ unwrap_or(last.arg.sample_rate, DEFAULT_SAMPLE_RATE) > 0
           /\ unwrap_or(last.arg.max_capture_frames,
                        DEFAULT_MAX_CAPTURE_FRAMES) > 0

\* The device callbacks, by the name they leave in `last`.
Callbacks == {"input_callback", "output_callback"}

\* C12: start on an engine that holds a stream returns success and is a
\* no-op: the streams held stay the ones held (no device is opened, the rates
\* are not seeded again) and EngineInner, device rates and both rate
\* accumulators included, is unchanged.
StartWhileStartedIsNoOp ==
    [][(last'.op = "start" /\ (input_stream \/ output_stream))
          => /\ last'.ok
             /\ inner' = inner
             /\ input_stream' = input_stream
             /\ output_stream' = output_stream
             /\ hist'.seeds = hist.seeds
      ]_vars

StartWhileStartedWitness ==
    /\ last.op = "start"
    /\ last.value = "already"
    /\ hist.play_dev > 0
    /\ inner.playback_step_accum # inner.playback_device_rate

\* C13: stop and close return Ok from every state, leave no stream, and do
\* not touch EngineInner (counters, both frame queues, the playback queue);
\* on a stopped engine they change nothing at all; and while no stream
\* exists no callback runs, so EngineInner changes only by a control call.
StopKeepsEngineState ==
    [][/\ (last'.op \in {"stop", "close"})
            => /\ last'.ok
               /\ inner' = inner
               /\ ~input_stream' /\ ~output_stream'
       /\ (~input_stream /\ ~output_stream) => last'.op \notin Callbacks
      ]_vars

StopKeepsEngineStateWitness ==
    /\ last.op = "stop"
    /\ inner.playback_queue # <<>>
    /\ inner.stats.playback_underruns > 0
    /\ hist.play_dev > 0

\* C14: a start that succeeds seeds the two device rates and the two rate
\* accumulators and nothing else: the playback queue, both frame queues,
\* both partial-frame accumulators and every counter are the ones the engine
\* held when it was stopped.
RestartReusesEngineState ==
    [][(last'.op = "start" /\ last'.value = "ok")
          => /\ last'.ok
             /\ inner'.playback_device_rate = Max(last'.arg[1], 1)
             /\ inner'.capture_device_rate = Max(last'.arg[2], 1)
             /\ inner'.playback_step_accum = inner'.playback_device_rate
             /\ inner'.capture_step_accum = inner'.capture_device_rate
             /\ [inner' EXCEPT
                    !.playback_device_rate = inner.playback_device_rate,
                    !.capture_device_rate = inner.capture_device_rate,
                    !.playback_step_accum = inner.playback_step_accum,
                    !.capture_step_accum = inner.capture_step_accum] = inner
      ]_vars

RestartReusesWitness ==
    /\ last.op = "start"
    /\ last.value = "ok"
    /\ hist.seeds >= 2
    /\ inner.render_accum # <<>>
    /\ inner.stats.playback_underruns > 0

\* C15: a start that fails returns an error and leaves the engine without a
\* stream, as it was before the call; it seeds the rates at most once (one
\* attempt per call); no callback follows it; and start on an engine without
\* streams always attempts to open the devices.
FailedStartHoldsNoStream ==
    [][/\ last'.op = "start"
            => /\ ~last'.ok => /\ ~input_stream /\ ~output_stream
                                /\ ~input_stream' /\ ~output_stream'
               /\ last'.ok => input_stream' /\ output_stream'
               /\ hist'.seeds <= hist.seeds + 1
               /\ (~input_stream /\ ~output_stream)
                     => last'.value # "already"
       /\ (last.op = "start" /\ ~last.ok) => last'.op \notin Callbacks
      ]_vars

FailedStartWitness ==
    /\ last.op = "start"
    /\ ~last.ok
    /\ last.value = "stream_failed"
    /\ hist.seeds >= 2
    /\ inner.stats.playback_underruns > 0

\* The calls of the control surface, by the name they leave in `last`.
PublicOps ==
    {"start", "stop", "close", "play", "read_processed_capture",
     "read_raw_capture", "set_stream_delay_ms", "get_stats"}

\* C16: once the lock is poisoned, every call of the control surface returns
\* the lock-poisoned error, whatever the engine's state, and leaves
\* EngineInner as it is.
PoisonedLockReported ==
    [][(poisoned /\ last'.op \in PublicOps)
          => /\ ~last'.ok
             /\ last'.value = "audio engine lock poisoned"
             /\ inner' = inner
      ]_vars

\* C17: set_stream_delay_ms returns an error when the external processor
\* rejects the delay, leaving the processor's delay as it was, and Ok when
\* the processor accepts it.
DelayRejectionReported ==
    [][(last'.op = "set_stream_delay_ms" /\ ~poisoned)
          => /\ last'.value = "rejected"
                   => /\ ~last'.ok
                      /\ inner'.apm_stream_delay_ms = inner.apm_stream_delay_ms
             /\ last'.value = "accepted"
                   => /\ last'.ok
                      /\ inner'.apm_stream_delay_ms = last'.arg
      ]_vars

\* What get_stats reports of an EngineInner.
Snapshot(e) ==
    [capture_frames |-> e.stats.capture_frames,
     processed_frames |-> e.stats.processed_frames,
     playback_underruns |-> e.stats.playback_underruns,
     pending_playback_samples |-> Len(e.playback_queue),
     dropped_raw_frames |-> e.stats.dropped_raw_frames,
     dropped_processed_frames |-> e.stats.dropped_processed_frames]

SnapshotFields == DOMAIN Snapshot(inner)

SnapshotCounters == SnapshotFields \ {"pending_playback_samples"}

\* C18: each of the six fields get_stats reports is non-negative and never
\* decreases from one lock-free state to the next (hence from any snapshot to
\* any later one), and get_stats changes no state.
SnapshotFieldsMonotonic ==
    [][/\ \A f \in SnapshotFields :
             /\ Snapshot(inner')[f] >= 0
             /\ Snapshot(inner')[f] >= Snapshot(inner)[f]
       /\ last'.op = "get_stats"
            => /\ inner' = inner
               /\ input_stream' = input_stream
               /\ output_stream' = output_stream
      ]_vars

\* C18 as amended: the five counters are non-negative and never decrease;
\* pending_playback_samples is the playback queue's current depth, which is
\* non-negative; a get_stats that succeeds reports exactly these values, and
\* get_stats changes no state.
SnapshotCountersMonotonic ==
    [][/\ \A f \in SnapshotCounters :
             /\ Snapshot(inner')[f] >= 0
             /\ Snapshot(inner')[f] >= Snapshot(inner)[f]
       /\ Snapshot(inner').pending_playback_samples >= 0
       /\ last'.op = "get_stats"
            => /\ last'.ok => last'.value = Snapshot(inner)
               /\ inner' = inner
               /\ input_stream' = input_stream
               /\ output_stream' = output_stream
      ]_vars

SnapshotCountersWitness ==
    /\ last.op = "get_stats"
    /\ last.value.capture_frames > 0
    /\ last.value.processed_frames > 0
    /\ last.value.playback_underruns > 0

\* C19: in every state between critical sections render_accum and
\* capture_accum each hold fewer than frame_size samples, whatever the rate
\* ratio.
AccumulatorsBelowFrame ==
    /\ Len(inner.render_accum) < inner.frame_size
    /\ Len(inner.capture_accum) < inner.frame_size

\* Render slots that consumed several playback samples each and a capture
\* sample that appended several pipeline samples, both directions holding a
\* partial frame.
AccumulatorsBelowFrameWitness ==
    /\ hist.play_adv > hist.play_dev + 1
    /\ hist.cap_adv > hist.cap_dev
    /\ inner.render_accum # <<>>
    /\ inner.capture_accum # <<>>

\* C20: every frame counted is still queued, counted as dropped, or was
\* returned by a drain, and none is counted twice:
\* capture_frames = |raw_frames| + dropped_raw_frames + frames returned by
\* read_raw_capture, and likewise for the processed queue.
FrameConservation ==
    /\ inner.stats.capture_frames
          = Len(inner.raw_frames) + inner.stats.dropped_raw_frames
            + hist.raw_returned
    /\ inner.stats.processed_frames
          = Len(inner.processed_frames) + inner.stats.dropped_processed_frames
            + hist.processed_returned

====
